---- MODULE Spec2Model ----
(***************************************************************************)
(* A model of pep425.py: the Tag value type, the tag-expression parser,    *)
(* the wheel-filename tag extractor, the platform-tag providers and the    *)
(* tag generators.  Python strings are TLA+ strings (TLC treats them as    *)
(* sequences of characters), Python lists and generators are sequences,    *)
(* Python sets are sets, and a call either returns a value or raises.      *)
(***************************************************************************)
EXTENDS Integers, Sequences, FiniteSets, TLC

VARIABLES
    call,   \* the call under way: [fn |-> name, args |-> its arguments]
    host,   \* the host facts the call reads (sys, platform, sysconfig, ...)
    pc,     \* position: "new" | "tag" | "text" | "call" | "done"
    tag,    \* the Tag instance constructed by Tag.__init__, or NoTag
    text,   \* the string handed to parse_tag
    ret     \* the outcome of the call: [err |-> ..., val |-> ...]

vars == <<call, host, pc, tag, text, ret>>

(***************************************************************************)
(* Bounds of the model.                                                    *)
(***************************************************************************)
MaxCompLen == 1      \* length of a component handed to Tag.__init__
MaxTagLen == 6       \* length of a string handed to parse_tag
MaxPathLen == 7      \* length of a path handed to parse_wheel_tag
MaxMinor == 5        \* largest minor version of the interpreter
MaxMacMinor == 7     \* largest minor version of macOS
MaxPlatforms == 2    \* length of a platform list handed to a generator

(***************************************************************************)
(* Outcomes of a call.                                                     *)
(***************************************************************************)
Pending == [err |-> "pending", val |-> <<>>]
Return(v) == [err |-> "none", val |-> v]
Raise(e) == [err |-> e, val |-> <<>>]
Returned(r) == r.err = "none"
Raised(r) == r.err \notin {"none", "pending"}

None == [some |-> FALSE]
Some(x) == [some |-> TRUE, v |-> x]

(***************************************************************************)
(* Python's str and list primitives, as the code uses them.                *)
(***************************************************************************)
Max(a, b) == IF a >= b THEN a ELSE b

Range(seq) == {seq[k] : k \in 1..Len(seq)}

\* s[i] for the 0-based Python index i.
CharAt(s, i) == SubSeq(s, i + 1, i + 1)

\* s[i:j] for 0-based Python indices 0 <= i, j <= len(s).
Slice(s, i, j) == SubSeq(s, i + 1, j)

ASCII_UPPERCASE == "ABCDEFGHIJKLMNOPQRSTUVWXYZ"
ASCII_LOWERCASE == "abcdefghijklmnopqrstuvwxyz"
DIGITS == "0123456789"

\* s.find(c, start, end) for a one-character c: -1 when absent.
find(s, c, start, end) ==
    LET hits == {k \in start..(end - 1) : CharAt(s, k) = c}
    IN  IF hits = {} THEN -1 ELSE CHOOSE k \in hits : \A j \in hits : k <= j

\* s.rfind(c, start, end) for a one-character c: -1 when absent.
rfind(s, c, start, end) ==
    LET hits == {k \in start..(end - 1) : CharAt(s, k) = c}
    IN  IF hits = {} THEN -1 ELSE CHOOSE k \in hits : \A j \in hits : k >= j

\* s.rindex(c, start, end): as rfind, but raises ValueError when absent; the
\* raise is the value -1 here and every caller propagates it.
rindex(s, c, start, end) == rfind(s, c, start, end)

\* The lowercase letter of each uppercase ASCII letter.
UppercaseLetters == {CharAt(ASCII_UPPERCASE, k) : k \in 0..(Len(ASCII_UPPERCASE) - 1)}
LowercaseOf ==
    [c \in UppercaseLetters |->
        CharAt(ASCII_LOWERCASE, find(ASCII_UPPERCASE, c, 0, Len(ASCII_UPPERCASE)))]

LowerChar(c) == IF c \in UppercaseLetters THEN LowercaseOf[c] ELSE c

\* s.lower()
RECURSIVE lower(_)
lower(s) ==
    IF s = "" THEN "" ELSE LowerChar(CharAt(s, 0)) \o lower(Slice(s, 1, Len(s)))

LowercaseLetters == {CharAt(ASCII_LOWERCASE, k) : k \in 0..(Len(ASCII_LOWERCASE) - 1)}
UppercaseOf ==
    [c \in LowercaseLetters |->
        CharAt(ASCII_UPPERCASE, find(ASCII_LOWERCASE, c, 0, Len(ASCII_LOWERCASE)))]

UpperChar(c) == IF c \in LowercaseLetters THEN UppercaseOf[c] ELSE c

\* s.upper()
RECURSIVE upper(_)
upper(s) ==
    IF s = "" THEN "" ELSE UpperChar(CharAt(s, 0)) \o upper(Slice(s, 1, Len(s)))

\* s.split(sep) for a one-character sep: always at least one piece.
RECURSIVE split(_, _)
split(s, sep) ==
    LET k == find(s, sep, 0, Len(s))
    IN  IF k = -1 THEN <<s>>
        ELSE <<Slice(s, 0, k)>> \o split(Slice(s, k + 1, Len(s)), sep)

\* sep.join(pieces)
RECURSIVE join(_, _)
join(sep, pieces) ==
    IF Len(pieces) = 0 THEN ""
    ELSE IF Len(pieces) = 1 THEN pieces[1]
    ELSE pieces[1] \o sep \o join(sep, Tail(pieces))

\* s.startswith(prefix)
startswith(s, prefix) ==
    Len(prefix) <= Len(s) /\ Slice(s, 0, Len(prefix)) = prefix

\* s.replace(old, new) for a non-empty old: leftmost, non-overlapping.
RECURSIVE replace(_, _, _)
replace(s, old, new) ==
    IF Len(s) < Len(old) THEN s
    ELSE IF startswith(s, old)
         THEN new \o replace(Slice(s, Len(old), Len(s)), old, new)
         ELSE CharAt(s, 0) \o replace(Slice(s, 1, Len(s)), old, new)

\* str(n) and "{}".format(n) for an integer n >= 0: decimal digits.
RECURSIVE IntStr(_)
IntStr(n) ==
    IF n < 10 THEN CharAt(DIGITS, n)
    ELSE IntStr(n \div 10) \o CharAt(DIGITS, n % 10)

IsDigits(s) == s # "" /\ \A k \in 0..(Len(s) - 1) : find(DIGITS, CharAt(s, k), 0, 10) # -1

\* int(s) for a string of decimal digits (the caller checks IsDigits first:
\* int raises ValueError on anything else the model feeds it).
RECURSIVE ParseInt(_)
ParseInt(s) ==
    IF Len(s) = 0 THEN 0
    ELSE 10 * ParseInt(Slice(s, 0, Len(s) - 1)) + find(DIGITS, CharAt(s, Len(s) - 1), 0, 10)

\* range(start, stop, -1) as a list.
RangeDown(start, stop) == [k \in 1..Max(0, start - stop) |-> start - k + 1]

\* The concatenation of a list of lists, in order.
RECURSIVE Flatten(_)
Flatten(lists) ==
    IF Len(lists) = 0 THEN <<>> ELSE Head(lists) \o Flatten(Tail(lists))

\* ord(c) for the ASCII characters tags are written with.
OrdChars ==
    UNION {{CharAt(x, k) : k \in 0..(Len(x) - 1)} :
              x \in {DIGITS, ASCII_UPPERCASE, ASCII_LOWERCASE}}
OrdOf ==
    [c \in OrdChars \cup {"-", ".", "/"} |->
        LET d == find(DIGITS, c, 0, Len(DIGITS))
            u == find(ASCII_UPPERCASE, c, 0, Len(ASCII_UPPERCASE))
            l == find(ASCII_LOWERCASE, c, 0, Len(ASCII_LOWERCASE))
            p == find("-./", c, 0, 3)
        IN  IF d # -1 THEN 48 + d
            ELSE IF u # -1 THEN 65 + u
            ELSE IF l # -1 THEN 97 + l
            ELSE 45 + p]
ord(c) == IF c \in DOMAIN OrdOf THEN OrdOf[c] ELSE 95

\* hash(s) for a str and hash(t) for a tuple of str: within one process a
\* function of the contents alone.  CPython mixes the characters with a
\* keyed hash of 64 bits; here they are mixed polynomially into 16 bits.
RECURSIVE hash_str(_, _)
hash_str(s, h) ==
    IF s = "" THEN h
    ELSE hash_str(Slice(s, 1, Len(s)), (h * 31 + ord(CharAt(s, 0))) % (2 ^ 16))

RECURSIVE hash_tuple(_, _)
hash_tuple(t, h) ==
    IF Len(t) = 0 THEN h
    ELSE hash_tuple(Tail(t), (h * 1009 + hash_str(Head(t), 7)) % (2 ^ 16))

\* version tuples compare lexicographically.
TupleLE(v, w) == v[1] < w[1] \/ (v[1] = w[1] /\ v[2] <= w[2])
TupleLT(v, w) == v[1] < w[1] \/ (v[1] = w[1] /\ v[2] < w[2])

\* All strings of length at most n over the alphabet.
RECURSIVE Strings(_, _)
Strings(alphabet, n) ==
    IF n = 0 THEN {""}
    ELSE {""} \cup {c \o s : c \in alphabet, s \in Strings(alphabet, n - 1)}

\* os.path.splitext(p): the extension starts at the last dot of the last
\* path component, leading dots of that component not counting.
splitext(p) ==
    LET sepIndex == rfind(p, "/", 0, Len(p))
        dotIndex == rfind(p, ".", 0, Len(p))
    IN  IF dotIndex > sepIndex
           /\ \E k \in (sepIndex + 1)..(dotIndex - 1) : CharAt(p, k) # "."
        THEN <<Slice(p, 0, dotIndex), Slice(p, dotIndex, Len(p))>>
        ELSE <<p, "">>

(***************************************************************************)
(* class Tag                                                               *)
(***************************************************************************)
NoTag == <<>>

\* Tag.__init__ without the lowercasing.
Tag_as_given(interpreter, abi, platform) == <<interpreter, abi, platform>>

\* Tag.__init__: the instance is its _tags tuple.
Tag(interpreter, abi, platform) == <<lower(interpreter), lower(abi), lower(platform)>>

\* Tag.__eq__
TagEq(t, u) == t = u

\* Tag.__hash__
TagHash(t) == hash_tuple(t, 0)

\* Tag.__str__
TagStr(t) == join("-", t)

(***************************************************************************)
(* parse_tag, parse_wheel_tag                                              *)
(***************************************************************************)
\* parse_tag with the split limited to the first two hyphens.
parse_tag_maxsplit(s) ==
    LET h1 == find(s, "-", 0, Len(s))
        h2 == IF h1 = -1 THEN -1 ELSE find(s, "-", h1 + 1, Len(s))
    IN  IF h2 = -1 THEN Raise("ValueError")
        ELSE Return({Tag(i, a, p) : i \in Range(split(Slice(s, 0, h1), ".")),
                                    a \in Range(split(Slice(s, h1 + 1, h2), ".")),
                                    p \in Range(split(Slice(s, h2 + 1, Len(s)), "."))})

\* parse_tag without the innermost loop: the platform segment is one token.
parse_tag_one_platform(s) ==
    LET segs == split(s, "-")
    IN  IF Len(segs) # 3 THEN Raise("ValueError")
        ELSE Return({Tag(i, a, segs[3]) : i \in Range(split(segs[1], ".")),
                                          a \in Range(split(segs[2], "."))})

\* parse_tag with abi and platform exchanged.
parse_tag_swapped(s) ==
    LET segs == split(s, "-")
    IN  IF Len(segs) # 3 THEN Raise("ValueError")
        ELSE Return({Tag(i, p, a) : i \in Range(split(segs[1], ".")),
                                    a \in Range(split(segs[2], ".")),
                                    p \in Range(split(segs[3], "."))})

parse_tag(s) ==
    LET segs == split(s, "-")
    IN  IF Len(segs) # 3 THEN Raise("ValueError")
        ELSE Return({Tag(i, a, p) : i \in Range(split(segs[1], ".")),
                                    a \in Range(split(segs[2], ".")),
                                    p \in Range(split(segs[3], "."))})

\* The while loop of parse_wheel_tag: `parts` hyphens are still to be found
\* left of `index`; -1 when rindex raises.
RECURSIVE wheel_index(_, _, _)
wheel_index(name, parts, index) ==
    IF parts = 0 THEN index
    ELSE LET k == rindex(name, "-", 0, index)
         IN  IF k = -1 THEN -1 ELSE wheel_index(name, parts - 1, k)

\* parse_wheel_tag with the loop started at parts = 2.
parse_wheel_tag_two_parts(path) ==
    LET name == splitext(path)[1]
        index == wheel_index(name, 2, Len(name))
    IN  IF index = -1 THEN Raise("ValueError")
        ELSE parse_tag(Slice(name, index + 1, Len(name)))

parse_wheel_tag(path) ==
    LET name == splitext(path)[1]
        index == wheel_index(name, 3, Len(name))
    IN  IF index = -1 THEN Raise("ValueError")
        ELSE parse_tag(Slice(name, index + 1, Len(name)))

(***************************************************************************)
(* Interpreter ids, ABI ids and the tag generators.  A generator is the    *)
(* list of the Tags it yields, in order.                                   *)
(***************************************************************************)
\* INTERPRETER_SHORT_NAMES.get(name): None when the name is no key.
INTERPRETER_SHORT_NAMES(name) ==
    CASE name = "python" -> Some("py")
      [] name = "cpython" -> Some("cp")
      [] name = "pypy" -> Some("pp")
      [] name = "ironpython" -> Some("ip")
      [] name = "jython" -> Some("jy")
      [] OTHER -> None

\* (Tag(interpreter, abi, platform) for platform in platforms)
TagsFor(interpreter, abi, platforms) ==
    [k \in 1..Len(platforms) |-> Tag(interpreter, abi, platforms[k])]

_normalize_string(string) == replace(replace(string, ".", "_"), "-", "_")

_cpython_interpreter(py_version) ==
    "cp" \o IntStr(py_version[1]) \o IntStr(py_version[2])

_cpython_abi(h, py_version) ==
    IF h.SOABI.some /\ h.SOABI.v # ""
    THEN LET parts == split(h.SOABI.v, "-")
         IN  IF Len(parts) # 3 THEN Raise("ValueError")
             ELSE Return("cp" \o parts[2])
    ELSE Return("cp" \o IntStr(py_version[1]) \o IntStr(py_version[2])
                     \o (IF h.Py_DEBUG THEN "d" ELSE "")
                     \o (IF h.WITH_PYMALLOC THEN "m" ELSE "")
                     \o (IF h.Py_UNICODE_SIZE = 4 THEN "u" ELSE ""))

\* _cpython_tags with the older minors counted down to 0.
_cpython_tags_to_zero(py_version, interpreter, abi, platforms) ==
    LET minors == RangeDown(py_version[2] - 1, -1)
    IN  TagsFor(interpreter, abi, platforms)
        \o TagsFor(interpreter, "abi3", platforms)
        \o TagsFor(interpreter, "none", platforms)
        \o Flatten([k \in 1..Len(minors) |->
                      TagsFor("cp" \o IntStr(py_version[1]) \o IntStr(minors[k]),
                              "abi3", platforms)])

_cpython_tags(py_version, interpreter, abi, platforms) ==
    LET minors == RangeDown(py_version[2] - 1, 1)
    IN  TagsFor(interpreter, abi, platforms)
        \o TagsFor(interpreter, "abi3", platforms)
        \o TagsFor(interpreter, "none", platforms)
        \o Flatten([k \in 1..Len(minors) |->
                      TagsFor("cp" \o IntStr(py_version[1]) \o IntStr(minors[k]),
                              "abi3", platforms)])

\* sys.pypy_version_info exists on PyPy only.
_pypy_interpreter(h) ==
    IF ~h.pypy_version_info.some THEN Raise("AttributeError")
    ELSE Return("pp" \o IntStr(h.version_info[1])
                     \o IntStr(h.pypy_version_info.v[1])
                     \o IntStr(h.pypy_version_info.v[2]))

_generic_abi(h) ==
    IF h.SOABI.some /\ h.SOABI.v # "" THEN _normalize_string(h.SOABI.v) ELSE "none"

_pypy_tags(py_version, interpreter, abi, platforms) ==
    TagsFor(interpreter, abi, platforms) \o TagsFor(interpreter, "none", platforms)

_generic_tags(interpreter, py_version, abi, platforms) ==
    TagsFor(interpreter, abi, platforms)
    \o (IF abi # "none" THEN TagsFor(interpreter, "none", platforms) ELSE <<>>)

\* _py_interpreter_range without the bare-major identifier.
_py_interpreter_range_no_major(py_version) ==
    LET minors == RangeDown(py_version[2] - 1, -1)
    IN  <<"py" \o IntStr(py_version[1]) \o IntStr(py_version[2])>>
        \o [k \in 1..Len(minors) |-> "py" \o IntStr(py_version[1]) \o IntStr(minors[k])]

_py_interpreter_range(py_version) ==
    LET minors == RangeDown(py_version[2] - 1, -1)
    IN  <<"py" \o IntStr(py_version[1]) \o IntStr(py_version[2]),
          "py" \o IntStr(py_version[1])>>
        \o [k \in 1..Len(minors) |-> "py" \o IntStr(py_version[1]) \o IntStr(minors[k])]

_independent_tags(interpreter, py_version, platforms) ==
    LET versions == _py_interpreter_range(py_version)
    IN  Flatten([k \in 1..Len(versions) |-> TagsFor(versions[k], "none", platforms)])
        \o <<Tag(interpreter, "none", "any")>>
        \o [k \in 1..Len(versions) |-> Tag(versions[k], "none", "any")]

(***************************************************************************)
(* The platform-tag providers.                                             *)
(***************************************************************************)
_mac_arch(arch, is_32bit) ==
    IF is_32bit
    THEN IF startswith(arch, "ppc") THEN "ppc" ELSE "i386"
    ELSE arch

\* _mac_binary_formats with ppc64 accepted at every version from 10.4 on.
_mac_binary_formats_ppc64_open(version, cpu_arch) ==
    IF cpu_arch = "x86_64"
    THEN IF TupleLE(<<10, 4>>, version)
         THEN <<cpu_arch, "intel", "fat64", "fat32", "universal">> ELSE <<>>
    ELSE IF cpu_arch = "i386"
    THEN IF TupleLE(<<10, 4>>, version)
         THEN <<cpu_arch, "intel", "fat32", "fat", "universal">> ELSE <<>>
    ELSE IF cpu_arch = "ppc64"
    THEN IF TupleLT(version, <<10, 4>>)
         THEN <<>> ELSE <<cpu_arch, "fat64", "universal">>
    ELSE IF cpu_arch = "ppc"
    THEN IF TupleLE(version, <<10, 6>>)
         THEN <<cpu_arch, "fat32", "fat", "universal">> ELSE <<>>
    ELSE <<cpu_arch, "universal">>

_mac_binary_formats(version, cpu_arch) ==
    IF cpu_arch = "x86_64"
    THEN IF TupleLE(<<10, 4>>, version)
         THEN <<cpu_arch, "intel", "fat64", "fat32", "universal">> ELSE <<>>
    ELSE IF cpu_arch = "i386"
    THEN IF TupleLE(<<10, 4>>, version)
         THEN <<cpu_arch, "intel", "fat32", "fat", "universal">> ELSE <<>>
    ELSE IF cpu_arch = "ppc64"
    THEN IF TupleLT(<<10, 5>>, version) \/ TupleLT(version, <<10, 4>>)
         THEN <<>> ELSE <<cpu_arch, "fat64", "universal">>
    ELSE IF cpu_arch = "ppc"
    THEN IF TupleLE(version, <<10, 6>>)
         THEN <<cpu_arch, "fat32", "fat", "universal">> ELSE <<>>
    ELSE <<cpu_arch, "universal">>

\* tuple(map(int, version_str.split(".")[:2]))
mac_version_tuple(version_str) ==
    LET pieces == split(version_str, ".")
        first == SubSeq(pieces, 1, IF Len(pieces) < 2 THEN Len(pieces) ELSE 2)
    IN  IF \E k \in 1..Len(first) : ~IsDigits(first[k]) THEN Raise("ValueError")
        ELSE Return([k \in 1..Len(first) |-> ParseInt(first[k])])

\* The loop of _mac_platforms over the compatible versions, keyed on key_arch.
mac_platform_list(version, key_arch) ==
    LET minors == RangeDown(version[2], -1)
    IN  Flatten([k \in 1..Len(minors) |->
            LET formats == _mac_binary_formats(<<version[1], minors[k]>>, key_arch)
            IN  [f \in 1..Len(formats) |->
                    "macosx_" \o IntStr(version[1]) \o "_" \o IntStr(minors[k])
                              \o "_" \o formats[f]]])

\* _mac_platforms(version, arch): `arch` is assigned and never read; the
\* binary formats are looked up under cpu_arch, the third item of
\* platform.mac_ver().
_mac_platforms(h, version, arch) ==
    LET cpu_arch == h.mac_ver[2]
        ver == IF version.some THEN Return(version.v) ELSE mac_version_tuple(h.mac_ver[1])
        arch1 == IF arch.some THEN arch.v ELSE _mac_arch(cpu_arch, h.is_32bit)
    IN  IF Raised(ver) THEN ver
        ELSE IF Len(ver.val) < 2 THEN Raise("IndexError")
        ELSE Return(mac_platform_list(ver.val, cpu_arch))

\* _is_manylinux1_compatible: the fall-through calls have_compatible_glibc, a
\* name the module does not define (the function is _have_compatible_glibc).
_is_manylinux1_compatible(h, platform) ==
    IF platform \notin {"linux_x86_64", "linux_i686"} THEN Return(FALSE)
    ELSE IF h.manylinux \in {"true", "false"} THEN Return(h.manylinux = "true")
    ELSE Raise("NameError")

_have_compatible_glibc(h, major, minimum_minor) ==
    IF ~h.glibc.some THEN Return(FALSE)
    ELSE LET pieces == split(h.glibc.v, ".")
         IN  IF \E k \in 1..Len(pieces) : ~IsDigits(pieces[k]) THEN Raise("ValueError")
             ELSE IF Len(pieces) # 2 THEN Raise("AssertionError")
             ELSE IF major # ParseInt(pieces[1]) THEN Return(FALSE)
             ELSE IF minimum_minor > ParseInt(pieces[2]) THEN Return(FALSE)
             ELSE Return(TRUE)

_linux_platforms(h, is_32bit) ==
    LET linux0 == _normalize_string(h.get_platform)
        linux == IF linux0 = "linux_x86_64" /\ is_32bit THEN "linux_i686" ELSE linux0
        compatible == _is_manylinux1_compatible(h, linux)
    IN  IF Raised(compatible) THEN compatible
        ELSE IF compatible.val
             THEN Return(<<linux, replace(linux, "linux", "manylinux1")>>)
             ELSE Return(<<linux>>)

_generic_platforms(h) == <<_normalize_string(h.get_platform)>>

_interpreter_name(h) ==
    LET name == lower(h.implementation)
        short == INTERPRETER_SHORT_NAMES(name)
    IN  IF short.some /\ short.v # "" THEN short.v ELSE name

\* "".join(py_version[:2]) joins integers: TypeError.
_generic_interpreter(h, name, py_version) ==
    IF h.py_version_nodot.some /\ h.py_version_nodot.v # ""
    THEN Return(name \o h.py_version_nodot.v)
    ELSE Raise("TypeError")

(***************************************************************************)
(* sys_tags                                                                *)
(***************************************************************************)
\* `platform.system == "Linux"` compares the function platform.system itself,
\* not the string it returns, with "Linux": never equal.
platform_system_is_Linux(h) == FALSE

sys_platforms(h) ==
    IF h.system = "Darwin" THEN _mac_platforms(h, None, None)
    ELSE IF platform_system_is_Linux(h) THEN _linux_platforms(h, h.is_32bit)
    ELSE Return(_generic_platforms(h))

sys_tags(h) ==
    LET py_version == h.version_info
        interpreter_name == _interpreter_name(h)
        platforms == sys_platforms(h)
    IN  IF Raised(platforms) THEN platforms
        ELSE IF interpreter_name = "cp"
        THEN LET interpreter == _cpython_interpreter(py_version)
                 abi == _cpython_abi(h, py_version)
             IN  IF Raised(abi) THEN abi
                 ELSE Return(_cpython_tags(py_version, interpreter, abi.val, platforms.val)
                             \o _independent_tags(interpreter, py_version, platforms.val))
        ELSE IF interpreter_name = "pp"
        THEN LET interpreter == _pypy_interpreter(h)
                 abi == _generic_abi(h)
             IN  IF Raised(interpreter) THEN interpreter
                 ELSE Return(_pypy_tags(py_version, interpreter.val, abi, platforms.val)
                             \o _independent_tags(interpreter.val, py_version, platforms.val))
        ELSE LET interpreter == _generic_interpreter(h, interpreter_name, py_version)
                 abi == _generic_abi(h)
             IN  IF Raised(interpreter) THEN interpreter
                 ELSE Return(_generic_tags(interpreter.val, py_version, abi, platforms.val)
                             \o _independent_tags(interpreter.val, py_version, platforms.val))

(***************************************************************************)
(* Inputs.                                                                 *)
(***************************************************************************)
\* A host with nothing special about it: 64-bit CPython 3.3 on Windows.
NoHost ==
    [system |-> "Windows",
     implementation |-> "CPython",
     version_info |-> <<3, 3>>,
     is_32bit |-> FALSE,
     mac_ver |-> <<"", "">>,
     get_platform |-> "win-amd64",
     SOABI |-> None,
     Py_DEBUG |-> FALSE,
     WITH_PYMALLOC |-> FALSE,
     Py_UNICODE_SIZE |-> 2,
     py_version_nodot |-> Some("33"),
     pypy_version_info |-> None,
     manylinux |-> "absent",
     glibc |-> None]

TagChars == {"a", "B", ".", "-"}
PathChars == {"a", "-", ".", "/"}

TagCalls ==
    {[fn |-> "Tag", args |-> <<i, a, p>>] :
        i \in Strings(TagChars, MaxCompLen),
        a \in Strings(TagChars, MaxCompLen),
        p \in Strings(TagChars, MaxCompLen)}
\* A second triple to compare a Tag of `a` with: the same strings, their
\* uppercased and lowercased forms, and `a` with one component replaced.
Variants(a) ==
    {a, <<upper(a[1]), upper(a[2]), upper(a[3])>>, <<lower(a[1]), lower(a[2]), lower(a[3])>>}
    \cup {[a EXCEPT ![k] = x] : k \in 1..3, x \in {"", "a", "b", "B"}}
TagEqChars == {"a", "B", "."}
TagEqCalls ==
    UNION {{[fn |-> "Tag.__eq__", args |-> <<<<i, a, p>>, b>>] : b \in Variants(<<i, a, p>>)} :
              i \in Strings(TagEqChars, MaxCompLen),
              a \in Strings(TagEqChars, MaxCompLen),
              p \in Strings(TagEqChars, MaxCompLen)}
ParseTagCalls == {[fn |-> "parse_tag", args |-> s] : s \in Strings(TagChars, MaxTagLen)}
ParseWheelTagCalls ==
    {[fn |-> "parse_wheel_tag", args |-> s] : s \in Strings(PathChars, MaxPathLen)}

\* Lists of at most n items of S.
RECURSIVE Lists(_, _)
Lists(S, n) ==
    IF n = 0 THEN {<<>>}
    ELSE {<<>>} \cup {<<x>> \o l : x \in S, l \in Lists(S, n - 1)}

PyVersions == {2, 3} \X (0..MaxMinor)
InterpreterIds == {"cp33", "PP360"}
AbiIds == {"cp33m", "abi3", "NONE"}
PlatformLists == Lists({"plat1", "Plat2", "any"}, MaxPlatforms)

CpythonTagsCalls ==
    {[fn |-> "_cpython_tags",
      args |-> [py_version |-> v, interpreter |-> i, abi |-> a, platforms |-> ps]] :
        v \in PyVersions, i \in InterpreterIds, a \in AbiIds, ps \in PlatformLists}
IndependentTagsCalls ==
    {[fn |-> "_independent_tags",
      args |-> [interpreter |-> i, py_version |-> v, platforms |-> ps]] :
        i \in InterpreterIds, v \in PyVersions, ps \in PlatformLists}

MacArchs == {"x86_64", "i386", "ppc64", "ppc", "arm64"}
MacVersions == {9, 10, 11} \X (0..MaxMacMinor)
MacBinaryFormatsCalls ==
    {[fn |-> "_mac_binary_formats", args |-> [version |-> v, cpu_arch |-> a]] :
        v \in MacVersions, a \in MacArchs}

\* platform.mac_ver() on a Mac, and ('', ..., '') anywhere else.
MacVers == ({"10.6.8", "10.4"} \X MacArchs) \cup {<<"", "">>}
MacPlatformsCalls ==
    {[fn |-> "_mac_platforms", args |-> [version |-> v, arch |-> a]] :
        v \in {None} \cup {Some(x) : x \in {10} \X (0..MaxMacMinor)},
        a \in {None} \cup {Some(x) : x \in MacArchs}}
MacHosts ==
    {[NoHost EXCEPT !.system = "Darwin", !.mac_ver = m, !.is_32bit = b,
                    !.get_platform = "macosx-10.6-" \o m[2]] :
        m \in MacVers, b \in BOOLEAN}

LinuxHosts ==
    {[NoHost EXCEPT !.system = "Linux", !.get_platform = g, !.is_32bit = b,
                    !.manylinux = m, !.glibc = c] :
        g \in {"linux-x86_64", "linux-i686", "linux-aarch64"},
        b \in BOOLEAN,
        m \in {"absent", "noattr", "true", "false"},
        c \in {None, Some("2.4"), Some("2.5"), Some("2.17"), Some("3.0")}}
LinuxPlatformsCalls ==
    {[fn |-> "_linux_platforms", args |-> [is_32bit |-> b]] : b \in BOOLEAN}

\* The facts sys_tags reads about the platform ...
SysPlatformHosts ==
    {h \in MacHosts : h.mac_ver[1] # ""}
    \cup {h \in LinuxHosts : h.glibc \in {None, Some("2.17")}}
    \cup {[NoHost EXCEPT !.get_platform = g, !.is_32bit = b] :
            g \in {"win-amd64", "win32"}, b \in BOOLEAN}

\* ... and about the interpreter.
SysHosts ==
    {[h EXCEPT !.version_info = v, !.SOABI = so, !.Py_DEBUG = f[1],
               !.WITH_PYMALLOC = f[2], !.Py_UNICODE_SIZE = f[3]] :
        h \in SysPlatformHosts,
        v \in {<<3, 0>>, <<3, MaxMinor>>},
        so \in {None, Some("cpython-37m-darwin"), Some("cpython-37m-x86_64-linux-gnu")},
        f \in {<<FALSE, FALSE, 2>>, <<TRUE, TRUE, 4>>}}
    \cup
    {[h EXCEPT !.implementation = "PyPy", !.version_info = v, !.SOABI = so,
               !.pypy_version_info = Some(<<6, 0>>)] :
        h \in SysPlatformHosts,
        v \in {<<3, 0>>, <<3, MaxMinor>>},
        so \in {None, Some("pypy3-60"), Some("NONE")}}
    \cup
    {[h EXCEPT !.implementation = "Jython", !.version_info = v, !.SOABI = so,
               !.py_version_nodot = n] :
        h \in SysPlatformHosts,
        v \in {<<3, 0>>, <<3, MaxMinor>>},
        so \in {None, Some("jy-27"), Some("NONE")},
        n \in {None, Some("30")}}

(***************************************************************************)
(* The state machine: a call is drawn, then run to its outcome.            *)
(***************************************************************************)
Init ==
    /\ tag = NoTag
    /\ ret = Pending
    /\ \/ call \in TagCalls /\ pc = "new" /\ text = "" /\ host = NoHost
       \/ call \in ParseTagCalls /\ pc = "text" /\ text = call.args /\ host = NoHost
       \/ /\ pc = "call"
          /\ text = ""
          /\ \/ call \in ParseWheelTagCalls /\ host = NoHost
             \/ call \in CpythonTagsCalls /\ host = NoHost
             \/ call \in IndependentTagsCalls /\ host = NoHost
             \/ call \in MacBinaryFormatsCalls /\ host = NoHost
             \/ call \in MacPlatformsCalls /\ host \in MacHosts
             \/ call \in LinuxPlatformsCalls /\ host \in LinuxHosts
             \/ call = [fn |-> "sys_tags", args |-> <<>>] /\ host \in SysHosts
             \/ call \in TagEqCalls /\ host = NoHost

\* Tag(interpreter, abi, platform)
TagInit ==
    /\ pc = "new"
    /\ tag' = Tag(call.args[1], call.args[2], call.args[3])
    /\ pc' = "tag"
    /\ UNCHANGED <<call, host, text, ret>>

\* str(tag)
TagToStr ==
    /\ pc = "tag"
    /\ text' = TagStr(tag)
    /\ pc' = "text"
    /\ UNCHANGED <<call, host, tag, ret>>

\* parse_tag(text)
ParseTag ==
    /\ pc = "text"
    /\ ret' = parse_tag(text)
    /\ pc' = "done"
    /\ UNCHANGED <<call, host, tag, text>>

\* parse_wheel_tag(path)
ParseWheelTag ==
    /\ pc = "call"
    /\ call.fn = "parse_wheel_tag"
    /\ ret' = parse_wheel_tag(call.args)
    /\ pc' = "done"
    /\ UNCHANGED <<call, host, tag, text>>

\* list(_cpython_tags(py_version, interpreter, abi, platforms))
CpythonTags ==
    /\ pc = "call"
    /\ call.fn = "_cpython_tags"
    /\ ret' = Return(_cpython_tags(call.args.py_version, call.args.interpreter,
                                   call.args.abi, call.args.platforms))
    /\ pc' = "done"
    /\ UNCHANGED <<call, host, tag, text>>

\* list(_independent_tags(interpreter, py_version, platforms))
IndependentTags ==
    /\ pc = "call"
    /\ call.fn = "_independent_tags"
    /\ ret' = Return(_independent_tags(call.args.interpreter, call.args.py_version,
                                       call.args.platforms))
    /\ pc' = "done"
    /\ UNCHANGED <<call, host, tag, text>>

\* _mac_binary_formats(version, cpu_arch)
MacBinaryFormats ==
    /\ pc = "call"
    /\ call.fn = "_mac_binary_formats"
    /\ ret' = Return(_mac_binary_formats(call.args.version, call.args.cpu_arch))
    /\ pc' = "done"
    /\ UNCHANGED <<call, host, tag, text>>

\* _mac_platforms(version, arch)
MacPlatforms ==
    /\ pc = "call"
    /\ call.fn = "_mac_platforms"
    /\ ret' = _mac_platforms(host, call.args.version, call.args.arch)
    /\ pc' = "done"
    /\ UNCHANGED <<call, host, tag, text>>

\* _linux_platforms(is_32bit)
LinuxPlatforms ==
    /\ pc = "call"
    /\ call.fn = "_linux_platforms"
    /\ ret' = _linux_platforms(host, call.args.is_32bit)
    /\ pc' = "done"
    /\ UNCHANGED <<call, host, tag, text>>

\* list(sys_tags())
SysTags ==
    /\ pc = "call"
    /\ call.fn = "sys_tags"
    /\ ret' = sys_tags(host)
    /\ pc' = "done"
    /\ UNCHANGED <<call, host, tag, text>>

\* t = Tag(*a); u = Tag(*b); t == u, hash(t), hash(u), str(t), str(u)
TagCompare ==
    /\ pc = "call"
    /\ call.fn = "Tag.__eq__"
    /\ LET t == Tag(call.args[1][1], call.args[1][2], call.args[1][3])
           u == Tag(call.args[2][1], call.args[2][2], call.args[2][3])
       IN  ret' = Return([eq |-> TagEq(t, u),
                          hashes |-> <<TagHash(t), TagHash(u)>>,
                          strs |-> <<TagStr(t), TagStr(u)>>])
    /\ pc' = "done"
    /\ UNCHANGED <<call, host, tag, text>>

Next ==
    \/ TagInit
    \/ TagToStr
    \/ ParseTag
    \/ ParseWheelTag
    \/ CpythonTags
    \/ IndependentTags
    \/ MacBinaryFormats
    \/ MacPlatforms
    \/ LinuxPlatforms
    \/ SysTags
    \/ TagCompare

Spec == Init /\ [][Next]_vars

(***************************************************************************)
(* What the claims speak of, stated without the code's own helpers.        *)
(***************************************************************************)
Positions(s, c) == {k \in 0..(Len(s) - 1) : CharAt(s, k) = c}
Count(s, c) == Cardinality(Positions(s, c))

\* The maximal c-free pieces of s, as a set.
Pieces(s, c) ==
    {Slice(s, ab[1], ab[2]) :
        ab \in {x \in (0..Len(s)) \X (0..Len(s)) :
                  /\ x[1] <= x[2]
                  /\ x[1] = 0 \/ CharAt(s, x[1] - 1) = c
                  /\ x[2] = Len(s) \/ CharAt(s, x[2]) = c
                  /\ \A k \in x[1]..(x[2] - 1) : CharAt(s, k) # c}}

\* The k-th smallest (k >= 1) element of a finite set of integers.
Kth(S, k) == CHOOSE x \in S : Cardinality({y \in S : y < x}) = k - 1

\* The k-th largest (k >= 1) element of a finite set of integers.
KthLast(S, k) == CHOOSE x \in S : Cardinality({y \in S : y > x}) = k - 1

\* The cartesian expansion of a string with exactly two hyphens.
Expansion(s) ==
    LET H == Positions(s, "-")
        h1 == Kth(H, 1)
        h2 == Kth(H, 2)
    IN  {<<lower(i), lower(a), lower(p)>> :
            i \in Pieces(Slice(s, 0, h1), "."),
            a \in Pieces(Slice(s, h1 + 1, h2), "."),
            p \in Pieces(Slice(s, h2 + 1, Len(s)), ".")}

ParseTagDone == pc = "done" /\ call.fn \in {"Tag", "parse_tag"}
RoundTripDone == pc = "done" /\ call.fn = "Tag"
Plain(s) == Count(s, "-") = 0 /\ Count(s, ".") = 0
RoundTrips == Returned(ret) /\ ret.val = {tag}

\* C1 as stated: for every Tag t built from any three strings,
\* parse_tag(str(t)) returns exactly {t}.
C1_RoundTripAnyStrings == RoundTripDone => RoundTrips

\* C1, amended: parse_tag(str(t)) returns exactly {t} for every Tag t none of
\* whose components contains a hyphen or a dot, and for no other Tag.
C1_RoundTripPlain ==
    RoundTripDone => (RoundTrips <=> \A k \in 1..3 : Plain(call.args[k]))

C1_Witness ==
    /\ RoundTripDone
    /\ call.args[1] = "B" /\ call.args[2] = "a" /\ call.args[3] = "B"
    /\ text = "b-a-b"
    /\ RoundTrips

\* C2: for a string with exactly three hyphen-delimited segments parse_tag
\* returns exactly the set of Tags of the dot-separated tokens of segment 1
\* x those of segment 2 x those of segment 3, each token lowercased.
C2_CartesianProduct ==
    (ParseTagDone /\ Count(text, "-") = 2)
        => (Returned(ret) /\ ret.val = Expansion(text))

C2_Witness ==
    /\ ParseTagDone
    /\ Count(text, "-") = 2
    /\ text # lower(text)
    /\ Returned(ret)
    /\ Cardinality(ret.val) = 4

\* C9: parse_tag raises, returning no tag set, for every string with fewer or
\* more than two hyphens, and never raises for a string with exactly two.
C9_MalformedTagExpression ==
    ParseTagDone =>
        /\ Count(text, "-") # 2 => (Raised(ret) /\ ret.val = <<>>)
        /\ Count(text, "-") = 2 => Returned(ret)

C9_Witness == ParseTagDone /\ Count(text, "-") > 2 /\ Raised(ret)

\* C3: parse_wheel_tag reads only the final three hyphen groups of the stem:
\* with three or more hyphens in the stem the call succeeds with parse_tag of
\* the text after the third-from-last hyphen; with fewer it raises.
C3_FinalThreeGroups ==
    (pc = "done" /\ call.fn = "parse_wheel_tag") =>
        LET stem == splitext(call.args)[1]
            H == Positions(stem, "-")
        IN  IF Cardinality(H) >= 3
            THEN /\ Returned(ret)
                 /\ ret.val = Expansion(Slice(stem, KthLast(H, 3) + 1, Len(stem)))
            ELSE Raised(ret) /\ ret.val = <<>>

C3_Witness ==
    /\ pc = "done" /\ call.fn = "parse_wheel_tag"
    /\ LET stem == splitext(call.args)[1]
           H == Positions(stem, "-")
       IN  /\ Cardinality(H) >= 3
           /\ splitext(call.args)[2] # ""
           /\ Count(Slice(stem, 0, KthLast(H, 3)), ".") > 0
           /\ Returned(ret)

\* A tag as the claims write it: the lowercased triple.
Triple(i, a, p) == <<lower(i), lower(a), lower(p)>>

Done(fn) == pc = "done" /\ call.fn = fn

\* "cp{major}{minor}" and "py{major}{minor}"
CpId(major, minor) == "cp" \o IntStr(major) \o IntStr(minor)
PyId(major, minor) == "py" \o IntStr(major) \o IntStr(minor)

\* The sequence C6 describes: tier (j - 1) \div n, platform (j - 1) % n.
CpythonSequence(version, interpreter, abi, platforms) ==
    LET n == Len(platforms)
        older == Max(0, version[2] - 2)
    IN  [j \in 1..((3 + older) * n) |->
            LET tier == (j - 1) \div n
                p == platforms[((j - 1) % n) + 1]
            IN  CASE tier = 0 -> Triple(interpreter, abi, p)
                  [] tier = 1 -> Triple(interpreter, "abi3", p)
                  [] tier = 2 -> Triple(interpreter, "none", p)
                  [] OTHER -> Triple(CpId(version[1], version[2] - (tier - 2)), "abi3", p)]

\* C6: the CPython generator yields, in order, (interpreter, abi, p) for each
\* platform p, then (interpreter, abi3, p), then (interpreter, none, p), then
\* (cp{major}{k}, abi3, p) for each older minor k from minor-1 down to 2;
\* platform varies fastest and nothing else is yielded.
C6_CpythonOrder ==
    Done("_cpython_tags") =>
        (Returned(ret)
         /\ ret.val = CpythonSequence(call.args.py_version, call.args.interpreter,
                                      call.args.abi, call.args.platforms))

C6_Witness ==
    /\ Done("_cpython_tags")
    /\ call.args.py_version = <<3, 4>>
    /\ call.args.interpreter = "PP360"
    /\ call.args.platforms = <<"plat1", "Plat2">>
    /\ Len(ret.val) = 10
    /\ ret.val[8] = <<"cp33", "abi3", "plat2">>
    /\ ret.val[10] = <<"cp32", "abi3", "plat2">>

\* The identifier sequence C7 describes: py{major}{minor}, py{major},
\* py{major}{minor-1}, ..., py{major}0.
PyIdSequence(version) ==
    [k \in 1..(version[2] + 2) |->
        IF k = 1 THEN PyId(version[1], version[2])
        ELSE IF k = 2 THEN "py" \o IntStr(version[1])
        ELSE PyId(version[1], version[2] - (k - 2))]

FallbackSequence(interpreter, version, platforms) ==
    LET n == Len(platforms)
        ids == PyIdSequence(version)
    IN  [j \in 1..(Len(ids) * n) |->
            Triple(ids[((j - 1) \div n) + 1], "none", platforms[((j - 1) % n) + 1])]
        \o <<Triple(interpreter, "none", "any")>>
        \o [k \in 1..Len(ids) |-> Triple(ids[k], "none", "any")]

\* C7: the fallback generator yields, in order, (v, none, p) for each version
\* identifier v of [py{major}{minor}, py{major}, py{major}{minor-1}, ...,
\* py{major}0] and each platform p (platform fastest), then
\* (interpreter, none, any), then (v, none, any) for each v.
C7_FallbackOrder ==
    Done("_independent_tags") =>
        (Returned(ret)
         /\ ret.val = FallbackSequence(call.args.interpreter, call.args.py_version,
                                       call.args.platforms))

C7_Witness ==
    /\ Done("_independent_tags")
    /\ call.args.py_version = <<3, 3>>
    /\ call.args.interpreter = "cp33"
    /\ call.args.platforms = <<"plat1", "Plat2">>
    /\ Len(ret.val) = 16
    /\ ret.val[3] = <<"py3", "none", "plat1">>
    /\ ret.val[11] = <<"cp33", "none", "any">>
    /\ ret.val[16] = <<"py30", "none", "any">>

\* version >= (major, minor) and version <= (major, minor), on version tuples.
AtLeast(v, major, minor) == v[1] > major \/ (v[1] = major /\ v[2] >= minor)
AtMost(v, major, minor) == v[1] < major \/ (v[1] = major /\ v[2] <= minor)

\* The table of C10, for its four architectures.
BinaryFormatTable(v, arch) ==
    CASE arch = "x86_64" ->
            IF AtLeast(v, 10, 4) THEN <<"x86_64", "intel", "fat64", "fat32", "universal">>
            ELSE <<>>
      [] arch = "i386" ->
            IF AtLeast(v, 10, 4) THEN <<"i386", "intel", "fat32", "fat", "universal">>
            ELSE <<>>
      [] arch = "ppc64" ->
            IF AtLeast(v, 10, 4) /\ AtMost(v, 10, 5) THEN <<"ppc64", "fat64", "universal">>
            ELSE <<>>
      [] arch = "ppc" ->
            IF AtMost(v, 10, 6) THEN <<"ppc", "fat32", "fat", "universal">>
            ELSE <<>>

TableArchs == {"x86_64", "i386", "ppc64", "ppc"}

\* C10: the macOS binary-format function returns the list fixed by the table
\* for x86_64, i386, ppc64 and ppc, and the empty list at a version outside
\* the architecture's valid range.
C10_BinaryFormatTable ==
    (Done("_mac_binary_formats") /\ call.args.cpu_arch \in TableArchs) =>
        (Returned(ret)
         /\ ret.val = BinaryFormatTable(call.args.version, call.args.cpu_arch))

C10_Witness ==
    /\ Done("_mac_binary_formats")
    /\ call.args.cpu_arch = "ppc64"
    /\ call.args.version = <<10, 6>>
    /\ ret.val = <<>>

\* The list C5 describes for a version and the architecture the list is keyed on.
MacPlatformSequence(version, arch) ==
    Flatten([k \in 1..(version[2] + 1) |->
        LET m == version[2] - (k - 1)
            aliases == BinaryFormatTable(<<version[1], m>>, arch)
        IN  [f \in 1..Len(aliases) |->
                "macosx_" \o IntStr(version[1]) \o "_" \o IntStr(m) \o "_" \o aliases[f]]])

\* The architecture supplied to the provider: the argument, or by default the
\* host architecture remapped on a 32-bit interpreter.
SuppliedArch(h, arch) ==
    IF arch.some THEN arch.v
    ELSE IF ~h.is_32bit THEN h.mac_ver[2]
    ELSE IF Slice(h.mac_ver[2], 0, 3) = "ppc" THEN "ppc" ELSE "i386"

\* C5: the macOS provider called with a version and an architecture returns,
\* for each minor m from minor down to 0, macosx_{major}_{m}_{alias} for every
\* alias of the binary-format list of ((major, m), arch), keyed on the
\* architecture supplied to the provider, not on the true host architecture.
C5_MacPlatformsKeyedOnArch ==
    (Done("_mac_platforms") /\ call.args.version.some
     /\ SuppliedArch(host, call.args.arch) \in TableArchs) =>
        (Returned(ret)
         /\ ret.val = MacPlatformSequence(call.args.version.v,
                                          SuppliedArch(host, call.args.arch)))

\* Dots and hyphens to underscores.
RECURSIVE Underscored(_)
Underscored(s) ==
    IF s = "" THEN ""
    ELSE (IF CharAt(s, 0) \in {".", "-"} THEN "_" ELSE CharAt(s, 0))
         \o Underscored(Slice(s, 1, Len(s)))

\* The C-runtime heuristic: major version 2 and minor version >= 5.
GlibcHeuristic(h) ==
    /\ h.glibc.some
    /\ LET pieces == split(h.glibc.v, ".")
       IN  Len(pieces) = 2 /\ ParseInt(pieces[1]) = 2 /\ ParseInt(pieces[2]) >= 5

\* The manylinux1 check: the explicit override if present, else the heuristic.
Manylinux1Check(h) ==
    IF h.manylinux \in {"true", "false"} THEN h.manylinux = "true" ELSE GlibcHeuristic(h)

\* The list C8 describes.
LinuxPlatformSequence(h, is_32bit) ==
    LET normalized == Underscored(h.get_platform)
        base == IF normalized = "linux_x86_64" /\ is_32bit THEN "linux_i686" ELSE normalized
    IN  IF base \in {"linux_x86_64", "linux_i686"} /\ Manylinux1Check(h)
        THEN <<base, "manylinux1" \o Slice(base, 5, Len(base))>>
        ELSE <<base>>

\* C8: the Linux provider returns without failing the normalized tag
\* (linux_x86_64 rewritten to linux_i686 on a 32-bit interpreter), followed by
\* its manylinux1 variant exactly when the tag is linux_x86_64 or linux_i686
\* and the manylinux1 check passes.
C8_LinuxPlatforms ==
    Done("_linux_platforms") =>
        (Returned(ret) /\ ret.val = LinuxPlatformSequence(host, call.args.is_32bit))

\* The platform components of the first tier of a yielded sequence: the
\* platforms up to the first return to the first one.
YieldedPlatforms(tags) ==
    LET n == CHOOSE k \in 1..Len(tags) :
                 /\ k = Len(tags) \/ tags[k + 1][3] = tags[1][3]
                 /\ \A j \in 1..(k - 1) : tags[j + 1][3] # tags[1][3]
    IN  [k \in 1..n |-> tags[k][3]]

\* C4: on a Linux host sys_tags selects the Linux provider: the platform
\* components of the tags it yields are the Linux provider's list, not the
\* generic provider's single tag.
C4_LinuxProviderSelected ==
    (Done("sys_tags") /\ host.system = "Linux" /\ Returned(ret)) =>
        YieldedPlatforms(ret.val) = LinuxPlatformSequence(host, host.is_32bit)

\* Two characters equal up to ASCII letter case.
LetterPairs == {{CharAt(ASCII_UPPERCASE, k), CharAt(ASCII_LOWERCASE, k)} : k \in 0..(Len(ASCII_UPPERCASE) - 1)}
SameLetter(c, d) == c = d \/ {c, d} \in LetterPairs

\* Two strings whose lowercased forms are equal.
SameLowercased(x, y) ==
    Len(x) = Len(y) /\ \A k \in 0..(Len(x) - 1) : SameLetter(CharAt(x, k), CharAt(y, k))

NoUppercase(x) == \A k \in 0..(Len(x) - 1) : CharAt(x, k) \notin UppercaseLetters

\* The canonical string of the triple a: its lowercased components joined by hyphens.
IsCanonical(x, a) ==
    NoUppercase(x) /\ SameLowercased(x, a[1] \o "-" \o a[2] \o "-" \o a[3])

NoDuplicates(tags) == \A i, j \in 1..Len(tags) : tags[i] = tags[j] => i = j

\* C12: for every interpreter family, every ABI id its derivation produces
\* ("none" when no SOABI is reported, any letter case) and every
\* duplicate-free platform list, the sequence yielded by sys_tags never
\* holds the same Tag twice.
C12_NoDuplicateTags ==
    (Done("sys_tags") /\ Returned(ret)) => NoDuplicates(ret.val)
====
